---- MODULE Spec2Model ----
(***************************************************************************)
(* Model of the bybit_rs market-data client (src/bybit/market.rs).         *)
(*                                                                         *)
(* MarketHTTP holds one field, a shared Arc<HttpManager>.  Each of its 14  *)
(* async methods resolves one MarketEnum variant to a path and awaits      *)
(* http_manager.submit_request(Method::GET, &url, query, true).            *)
(*                                                                         *)
(* A call is a future.  The action of a method is a caller invoking it:    *)
(* the body runs up to its one suspension point, inside submit_request.    *)
(* DispatcherRespond is the dispatcher producing the outcome of that       *)
(* request, and Await resumes the body, which returns the outcome.         *)
(***************************************************************************)
EXTENDS Integers, Sequences, FiniteSets, TLC

\* Number of calls made on the one client in a behaviour.
MaxCalls == 2

VARIABLES
    self,          \* the MarketHTTP value: [http_manager |-> dispatcher handle]
    calls,         \* calls[c]: the future of the c-th call, in invocation order
    invocations,   \* invocations[c]: requests submit_request received from call c
    responses      \* responses[c]: the dispatcher's outcome for call c's request

vars == <<self, calls, invocations, responses>>

----------------------------------------------------------------------------
\* Endpoint catalog (crate::endpoints::v5market)

MarketEnum ==
    { "GetKline", "GetMarkPriceKline", "GetIndexPriceKline",
      "GetPremiumIndexPriceKline", "GetInstrumentsInfo", "GetOrderbook",
      "GetTickers", "GetFundingRateHistory", "GetPublicTradingHistory",
      "GetOpenInterest", "GetHistoricalVolatility", "GetInsurance",
      "GetRiskLimit", "GetOptionDeliveryPrice" }

\* A catalog in which two operations share a wire path.
to_string_shared(op) ==
    CASE op = "GetKline" -> "kline"
      [] op = "GetMarkPriceKline" -> "mark-price-kline"
      [] op = "GetIndexPriceKline" -> "index-price-kline"
      [] op = "GetPremiumIndexPriceKline" -> "premium-index-price-kline"
      [] op = "GetInstrumentsInfo" -> "instruments-info"
      [] op = "GetOrderbook" -> "orderbook"
      [] op = "GetTickers" -> "tickers"
      [] op = "GetFundingRateHistory" -> "funding-rate-history"
      [] op = "GetPublicTradingHistory" -> "recent-trade"
      [] op = "GetOpenInterest" -> "open-interest"
      [] op = "GetHistoricalVolatility" -> "historical-volatility"
      [] op = "GetInsurance" -> "insurance"
      [] op = "GetRiskLimit" -> "risk-limit"
      [] op = "GetOptionDeliveryPrice" -> "insurance"

\* MarketEnum::to_string: the wire path of a logical operation.
to_string(op) ==
    CASE op = "GetKline" -> "kline"
      [] op = "GetMarkPriceKline" -> "mark-price-kline"
      [] op = "GetIndexPriceKline" -> "index-price-kline"
      [] op = "GetPremiumIndexPriceKline" -> "premium-index-price-kline"
      [] op = "GetInstrumentsInfo" -> "instruments-info"
      [] op = "GetOrderbook" -> "orderbook"
      [] op = "GetTickers" -> "tickers"
      [] op = "GetFundingRateHistory" -> "funding-rate-history"
      [] op = "GetPublicTradingHistory" -> "recent-trade"
      [] op = "GetOpenInterest" -> "open-interest"
      [] op = "GetHistoricalVolatility" -> "historical-volatility"
      [] op = "GetInsurance" -> "insurance"
      [] op = "GetRiskLimit" -> "risk-limit"
      [] op = "GetOptionDeliveryPrice" -> "option-delivery-price"

----------------------------------------------------------------------------
\* Inputs and dispatcher outcomes

\* The methods of trait Market (besides new).
Methods ==
    { "get_kline", "get_mark_price_kline", "get_index_price_kline",
      "get_premium_index_price_kline", "get_instruments_info", "get_orderbook",
      "get_tickers", "get_funding_rate_history", "get_public_trade_history",
      "get_open_interest", "get_historical_volatility", "get_insurance",
      "get_risk_limit", "get_option_delivery_price" }

\* HashMap<String, String> arguments the callers pass: for each method the
\* arguments its documentation requires, with sample values.
Q3(category, symbol, interval) ==
    [category |-> category, symbol |-> symbol, interval |-> interval]
Q2(category, symbol) == [category |-> category, symbol |-> symbol]
Q1(category) == [category |-> category]
Q0 == [k \in {} |-> ""]

QueriesOf(m) ==
    CASE m = "get_kline" ->
            { Q3("linear", "BTCUSDT", "60"), Q3("inverse", "BTCUSD", "D") }
      [] m = "get_mark_price_kline" -> { Q3("linear", "BTCUSDT", "60") }
      [] m = "get_index_price_kline" -> { Q3("inverse", "BTCUSD", "D") }
      [] m = "get_premium_index_price_kline" -> { Q3("linear", "BTCUSDT", "60") }
      [] m = "get_instruments_info" -> { Q1("spot") }
      [] m = "get_orderbook" -> { Q2("spot", "ETHUSDT") }
      [] m = "get_tickers" -> { Q1("option") }
      [] m = "get_funding_rate_history" -> { Q2("linear", "BTCUSDT") }
      [] m = "get_public_trade_history" -> { Q2("spot", "ETHUSDT") }
      [] m = "get_open_interest" ->
            { [category |-> "linear", symbol |-> "BTCUSDT", intervalTime |-> "1h"] }
      [] m = "get_historical_volatility" -> { Q1("option") }
      [] m = "get_insurance" -> { Q0 }
      [] m = "get_risk_limit" -> { Q0 }
      [] m = "get_option_delivery_price" -> { Q0 }

Pending == [tag |-> "Pending", val |-> ""]
Ok(v) == [tag |-> "Ok", val |-> v]
Err(e) == [tag |-> "Err", val |-> e]

\* Result<Value> values submit_request can produce.
Outcomes ==
    { Ok("value"), Err("AuthenticationFailure"), Err("RateLimit") }

CallIds == 1..MaxCalls

Done(c) == c <= Len(calls) /\ calls[c].pc = "done"

----------------------------------------------------------------------------
\* Construction

\* MarketHTTP::new
new(http_manager) == [http_manager |-> http_manager]

Init ==
    /\ self = new("Arc<HttpManager>")
    /\ calls = << >>
    /\ invocations = << >>
    /\ responses = << >>

----------------------------------------------------------------------------
\* The dispatcher (super::http_manager::HttpManager)

\* HttpManager::submit_request: the dispatcher receives one request from the
\* call being made, which suspends on it.
submit_request(method, url, query, authenticated) ==
    /\ invocations' = Append(invocations,
          << [verb |-> method, path |-> url, params |-> query,
              authenticated |-> authenticated] >>)
    /\ responses' = Append(responses, Pending)

\* The dispatcher finishes call c's request with outcome o.
DispatcherRespond(c, o) ==
    /\ c <= Len(calls)
    /\ calls[c].pc = "awaiting"
    /\ responses[c] = Pending
    /\ responses' = [responses EXCEPT ![c] = o]
    /\ UNCHANGED <<self, calls, invocations>>

----------------------------------------------------------------------------
\* The client

\* A caller invokes method m with the given query: the call exists from now on
\* and its body runs up to the suspension at submit_request.
Invoked(m, query) ==
    /\ Len(calls) < MaxCalls
    /\ calls' = Append(calls, [method |-> m, query |-> query, pc |-> "awaiting",
                               ret |-> Pending])
    /\ UNCHANGED self

get_kline(query) ==
    /\ Invoked("get_kline", query)
    /\ LET url == to_string("GetKline")
       IN submit_request("GET", url, query, TRUE)

get_mark_price_kline(query) ==
    /\ Invoked("get_mark_price_kline", query)
    /\ LET url == to_string("GetMarkPriceKline")
       IN submit_request("GET", url, query, TRUE)

get_index_price_kline(query) ==
    /\ Invoked("get_index_price_kline", query)
    /\ LET url == to_string("GetIndexPriceKline")
       IN submit_request("GET", url, query, TRUE)

get_premium_index_price_kline(query) ==
    /\ Invoked("get_premium_index_price_kline", query)
    /\ LET url == to_string("GetPremiumIndexPriceKline")
       IN submit_request("GET", url, query, TRUE)

get_instruments_info(query) ==
    /\ Invoked("get_instruments_info", query)
    /\ LET url == to_string("GetInstrumentsInfo")
       IN submit_request("GET", url, query, TRUE)

\* get_orderbook sending the parameters of the call made before it, as if the
\* client kept the last query in a field of its own.
get_orderbook_last_query(query) ==
    /\ Invoked("get_orderbook", query)
    /\ LET url == to_string("GetOrderbook")
       IN submit_request("GET", url,
                         IF calls = << >> THEN query ELSE calls[Len(calls)].query,
                         TRUE)

get_orderbook(query) ==
    /\ Invoked("get_orderbook", query)
    /\ LET url == to_string("GetOrderbook")
       IN submit_request("GET", url, query, TRUE)

\* get_tickers answering from an earlier identical call instead of dispatching.
get_tickers_cached(query) ==
    /\ Invoked("get_tickers", query)
    /\ LET url == to_string("GetTickers")
           hit == { d \in 1..Len(calls) :
                      calls[d].method = "get_tickers" /\ calls[d].query = query }
       IN IF hit = {}
          THEN submit_request("GET", url, query, TRUE)
          ELSE /\ invocations' = Append(invocations, << >>)
               /\ responses' = Append(responses, responses[CHOOSE d \in hit : TRUE])

get_tickers(query) ==
    /\ Invoked("get_tickers", query)
    /\ LET url == to_string("GetTickers")
       IN submit_request("GET", url, query, TRUE)

get_funding_rate_history(query) ==
    /\ Invoked("get_funding_rate_history", query)
    /\ LET url == to_string("GetFundingRateHistory")
       IN submit_request("GET", url, query, TRUE)

get_public_trade_history(query) ==
    /\ Invoked("get_public_trade_history", query)
    /\ LET url == to_string("GetPublicTradingHistory")
       IN submit_request("GET", url, query, TRUE)

\* get_open_interest sent as a public request.
get_open_interest_public(query) ==
    /\ Invoked("get_open_interest", query)
    /\ submit_request("GET", to_string("GetOpenInterest"), query, FALSE)

get_open_interest(query) ==
    /\ Invoked("get_open_interest", query)
    /\ submit_request("GET", to_string("GetOpenInterest"), query, TRUE)

get_historical_volatility(query) ==
    /\ Invoked("get_historical_volatility", query)
    /\ submit_request("GET", to_string("GetHistoricalVolatility"), query, TRUE)

\* get_insurance whose request depends on the client's history: after a failed
\* call it goes out unauthenticated.
get_insurance_after_failure(query) ==
    /\ Invoked("get_insurance", query)
    /\ submit_request("GET", to_string("GetInsurance"), query,
                      ~ \E d \in 1..Len(calls) :
                            calls[d].pc = "done" /\ calls[d].ret.tag = "Err")

get_insurance(query) ==
    /\ Invoked("get_insurance", query)
    /\ submit_request("GET", to_string("GetInsurance"), query, TRUE)

get_risk_limit(query) ==
    /\ Invoked("get_risk_limit", query)
    /\ submit_request("GET", to_string("GetRiskLimit"), query, TRUE)

\* get_option_delivery_price copied from get_insurance with the operation left
\* as it was.
get_option_delivery_price_insurance(query) ==
    /\ Invoked("get_option_delivery_price", query)
    /\ submit_request("GET", to_string("GetInsurance"), query, TRUE)

get_option_delivery_price(query) ==
    /\ Invoked("get_option_delivery_price", query)
    /\ submit_request("GET", to_string("GetOptionDeliveryPrice"), query, TRUE)

\* An Await that replaces a failure by an empty success.
Await_unwrap_or_default(c) ==
    /\ c <= Len(calls)
    /\ calls[c].pc = "awaiting"
    /\ responses[c] # Pending
    /\ calls' = [calls EXCEPT ![c].pc = "done",
                              ![c].ret = IF responses[c].tag = "Err"
                                         THEN Ok("null") ELSE responses[c]]
    /\ UNCHANGED <<self, invocations, responses>>

\* An Await that submits the request once more after a failure.
Await_retry(c) ==
    /\ c <= Len(calls)
    /\ calls[c].pc = "awaiting"
    /\ responses[c] # Pending
    /\ IF responses[c].tag = "Err" /\ Len(invocations[c]) < 2
       THEN /\ invocations' = [invocations EXCEPT ![c] = Append(@, @[Len(@)])]
            /\ responses' = [responses EXCEPT ![c] = Pending]
            /\ UNCHANGED <<self, calls>>
       ELSE /\ calls' = [calls EXCEPT ![c].pc = "done", ![c].ret = responses[c]]
            /\ UNCHANGED <<self, invocations, responses>>

\* An Await that hands results back in the order the calls were made.
Await_in_order(c) ==
    /\ c <= Len(calls)
    /\ calls[c].pc = "awaiting"
    /\ responses[c] # Pending
    /\ \A d \in 1..(c - 1) : calls[d].pc = "done"
    /\ calls' = [calls EXCEPT ![c].pc = "done", ![c].ret = responses[c]]
    /\ UNCHANGED <<self, invocations, responses>>

\* An Await that returns without waiting for the dispatcher's outcome.
Await_early(c) ==
    /\ c <= Len(calls)
    /\ calls[c].pc = "awaiting"
    /\ calls' = [calls EXCEPT ![c].pc = "done", ![c].ret = responses[c]]
    /\ UNCHANGED <<self, invocations, responses>>

\* The `.await` of a method body: once the dispatcher has produced the
\* outcome, the body resumes and returns it as its own value.
Await(c) ==
    /\ c <= Len(calls)
    /\ calls[c].pc = "awaiting"
    /\ responses[c] # Pending
    /\ calls' = [calls EXCEPT ![c].pc = "done", ![c].ret = responses[c]]
    /\ UNCHANGED <<self, invocations, responses>>

----------------------------------------------------------------------------
Next ==
    \/ \E query \in QueriesOf("get_kline") : get_kline(query)
    \/ \E query \in QueriesOf("get_mark_price_kline") : get_mark_price_kline(query)
    \/ \E query \in QueriesOf("get_index_price_kline") : get_index_price_kline(query)
    \/ \E query \in QueriesOf("get_premium_index_price_kline") : get_premium_index_price_kline(query)
    \/ \E query \in QueriesOf("get_instruments_info") : get_instruments_info(query)
    \/ \E query \in QueriesOf("get_orderbook") : get_orderbook(query)
    \/ \E query \in QueriesOf("get_tickers") : get_tickers(query)
    \/ \E query \in QueriesOf("get_funding_rate_history") : get_funding_rate_history(query)
    \/ \E query \in QueriesOf("get_public_trade_history") : get_public_trade_history(query)
    \/ \E query \in QueriesOf("get_open_interest") : get_open_interest(query)
    \/ \E query \in QueriesOf("get_historical_volatility") : get_historical_volatility(query)
    \/ \E query \in QueriesOf("get_insurance") : get_insurance(query)
    \/ \E query \in QueriesOf("get_risk_limit") : get_risk_limit(query)
    \/ \E query \in QueriesOf("get_option_delivery_price") : get_option_delivery_price(query)
    \/ \E c \in CallIds, o \in Outcomes : DispatcherRespond(c, o)
    \/ \E c \in CallIds : Await(c)

Spec == Init /\ [][Next]_vars

\* The executor polls a call again once its request has an outcome.
FairSpec == Spec /\ \A c \in CallIds : WF_vars(Await(c))

----------------------------------------------------------------------------
\* Properties

CallIndexes == 1..Len(calls)

\* The operation each method is named after.
MethodOperation ==
    [ get_kline |-> "GetKline",
      get_mark_price_kline |-> "GetMarkPriceKline",
      get_index_price_kline |-> "GetIndexPriceKline",
      get_premium_index_price_kline |-> "GetPremiumIndexPriceKline",
      get_instruments_info |-> "GetInstrumentsInfo",
      get_orderbook |-> "GetOrderbook",
      get_tickers |-> "GetTickers",
      get_funding_rate_history |-> "GetFundingRateHistory",
      get_public_trade_history |-> "GetPublicTradingHistory",
      get_open_interest |-> "GetOpenInterest",
      get_historical_volatility |-> "GetHistoricalVolatility",
      get_insurance |-> "GetInsurance",
      get_risk_limit |-> "GetRiskLimit",
      get_option_delivery_price |-> "GetOptionDeliveryPrice" ]

RECURSIVE InvocationCount(_)
InvocationCount(n) ==
    IF n = 0 THEN 0 ELSE Len(invocations[n]) + InvocationCount(n - 1)

\* A caller invoking method m with query q.
MethodCall(m, q) ==
    \/ m = "get_kline" /\ get_kline(q)
    \/ m = "get_mark_price_kline" /\ get_mark_price_kline(q)
    \/ m = "get_index_price_kline" /\ get_index_price_kline(q)
    \/ m = "get_premium_index_price_kline" /\ get_premium_index_price_kline(q)
    \/ m = "get_instruments_info" /\ get_instruments_info(q)
    \/ m = "get_orderbook" /\ get_orderbook(q)
    \/ m = "get_tickers" /\ get_tickers(q)
    \/ m = "get_funding_rate_history" /\ get_funding_rate_history(q)
    \/ m = "get_public_trade_history" /\ get_public_trade_history(q)
    \/ m = "get_open_interest" /\ get_open_interest(q)
    \/ m = "get_historical_volatility" /\ get_historical_volatility(q)
    \/ m = "get_insurance" /\ get_insurance(q)
    \/ m = "get_risk_limit" /\ get_risk_limit(q)
    \/ m = "get_option_delivery_price" /\ get_option_delivery_price(q)

\* C1: every call M(P) has handed the dispatcher exactly one request, and that
\* request has verb GET, authenticated = true and params equal to P: the same
\* keys with the same values.
C1_OneGetAuthenticatedRequest ==
    \A c \in CallIndexes :
        /\ Len(invocations[c]) = 1
        /\ invocations[c][1].verb = "GET"
        /\ invocations[c][1].authenticated = TRUE
        /\ DOMAIN invocations[c][1].params = DOMAIN calls[c].query
        /\ invocations[c][1].params = calls[c].query

C1_Witness ==
    \E c, d \in CallIndexes :
        /\ calls[c].method = "get_open_interest"
        /\ invocations[c][1].params =
              [category |-> "linear", symbol |-> "BTCUSDT", intervalTime |-> "1h"]
        /\ calls[d].method = "get_kline"
        /\ invocations[d][1].params = Q3("linear", "BTCUSDT", "60")

\* C2: the value a call returns is exactly the outcome the dispatcher produced
\* for that call's request: a success stays that success, an error stays that
\* error; and nothing is returned before the call is done.
C2_PassThrough ==
    \A c \in CallIndexes :
        IF Done(c)
        THEN calls[c].ret = responses[c] /\ responses[c] \in Outcomes
        ELSE calls[c].ret = Pending

C2_Witness ==
    \E c, d \in CallIndexes :
        /\ Done(c) /\ calls[c].ret = Err("RateLimit")
        /\ Done(d) /\ calls[d].ret = Ok("value")

\* C3: once the dispatcher has answered a call with an error, the dispatcher
\* has been invoked exactly once for that call, also after the call returned,
\* and the call returns that error: an authentication failure is returned as
\* the authentication failure.
C3_ErrorReturnedWithoutRetry ==
    \A c \in CallIndexes :
        /\ responses[c].tag = "Err" => Len(invocations[c]) = 1
        /\ Done(c) /\ responses[c] = Err("AuthenticationFailure") =>
              calls[c].ret = Err("AuthenticationFailure")
        /\ Done(c) /\ calls[c].ret.tag = "Err" => Len(invocations[c]) = 1

C3_Witness ==
    \E c \in CallIndexes :
        /\ Done(c)
        /\ calls[c].ret = Err("AuthenticationFailure")
        /\ Len(invocations[c]) = 1

\* C4: the number of dispatcher invocations equals the number of calls made, 
\* whether or not the same method and parameters were used before and whether
\* the earlier call succeeded or failed.
C4_NoCachingOrDeduplication ==
    InvocationCount(Len(calls)) = Len(calls)

C4_Witness ==
    \E c, d \in CallIndexes :
        /\ c < d
        /\ calls[c].method = calls[d].method
        /\ calls[c].query = calls[d].query
        /\ Done(c) /\ calls[c].ret.tag = "Err"
        /\ InvocationCount(Len(calls)) = 2

\* C5: with calls overlapping in any way, each call has reached the dispatcher
\* exactly once with its own path and its own parameters, and a call that has
\* returned returned the outcome of its own request.
C5_NoCrossCallInterference ==
    \A c \in CallIndexes :
        /\ Len(invocations[c]) = 1
        /\ invocations[c][1].path = to_string(MethodOperation[calls[c].method])
        /\ invocations[c][1].params = calls[c].query
        /\ Done(c) => calls[c].ret = responses[c]

C5_Witness ==
    \E c, d \in CallIndexes :
        /\ c < d
        /\ calls[c].method # calls[d].method
        /\ calls[c].query # calls[d].query
        /\ calls[c].pc = "awaiting" /\ responses[c] # Pending
        /\ Done(d) /\ calls[d].ret # responses[c]

CatalogTotalInjective ==
    /\ \A o \in MarketEnum : to_string(o) # ""
    /\ \A o1, o2 \in MarketEnum : o1 # o2 => to_string(o1) # to_string(o2)

\* C6: every operation of the catalog resolves to a non-empty path, and two
\* distinct operations never resolve to the same path.
C6_CatalogTotalInjective ==
    /\ CatalogTotalInjective
    /\ \A c \in CallIndexes : invocations[c][1].path # ""

C6_Witness ==
    \E c, d \in CallIndexes :
        /\ invocations[c][1].path = to_string("GetInsurance")
        /\ invocations[d][1].path = to_string("GetOptionDeliveryPrice")

C8_NoOrderingBetweenCalls ==
    \A c \in CallIndexes :
        calls[c].pc = "awaiting" /\ responses[c] # Pending => ENABLED Await(c)

\* A later call has returned while an earlier call of the same method, with
\* other parameters, still waits for the dispatcher.
C8_Witness ==
    \E c, d \in CallIndexes :
        /\ c < d
        /\ calls[c].method = calls[d].method /\ calls[c].query # calls[d].query
        /\ calls[c].pc = "awaiting" /\ responses[c] = Pending
        /\ Done(d)

\* C9: the client's only field keeps the value it was constructed with; every
\* method can be called whatever was called before, from construction on; and
\* two calls of the same method with the same parameters produce the same
\* request, whatever happened on the client in between.
C9_Stateless ==
    /\ self = new("Arc<HttpManager>")
    /\ DOMAIN self = {"http_manager"}
    /\ Len(calls) < MaxCalls =>
          \A m \in Methods : \A q \in QueriesOf(m) : ENABLED MethodCall(m, q)
    /\ \A c, d \in CallIndexes :
          calls[c].method = calls[d].method /\ calls[c].query = calls[d].query
          => invocations[c] = invocations[d]

C9_Witness ==
    \E c, d \in CallIndexes :
        /\ c < d
        /\ Done(c) /\ calls[c].ret.tag = "Err"
        /\ calls[d].method = calls[c].method /\ calls[d].query = calls[c].query
        /\ Done(d) /\ calls[d].ret.tag = "Ok"

C10_ReturnsOnlyAfterOutcome ==
    \A c \in CallIndexes :
        Done(c) => responses[c] # Pending /\ calls[c].ret # Pending

C10_ReturnsOnce ==
    \A c \in CallIds :
        /\ Done(c) => Done(c)' /\ calls'[c].ret = calls[c].ret
        /\ c <= Len(calls) /\ responses[c] # Pending =>
              responses'[c] = responses[c]

C10_NoneLeftWaiting ==
    \A c \in CallIndexes : responses[c] # Pending => Done(c)

\* C10: a call returns only after the dispatcher has produced the outcome of
\* its request; the exchange happens once (the outcome of a request and the
\* value of a returned call never change); and a call whose request has an
\* outcome does return: again and again no call is left holding an outcome it
\* has not returned.
C10_SingleExchange ==
    /\ []C10_ReturnsOnlyAfterOutcome
    /\ [][C10_ReturnsOnce]_vars
    /\ []<>C10_NoneLeftWaiting

C10_Witness ==
    \E c, d \in CallIndexes :
        /\ Done(c)
        /\ calls[d].pc = "awaiting" /\ responses[d] # Pending

====
